---- MODULE Spec2Model ----
(***************************************************************************)
(* A model of the VideoPlayer controller (src/src/video_player.py) and of  *)
(* the collaborators it drives: the video library, the playback state      *)
(* machine and the playlist store.  Every public method of VideoPlayer is  *)
(* one action; the lines it prints and the playback calls it makes are     *)
(* recorded, in order, in the variable events.                             *)
(*                                                                         *)
(* Strings that the code transforms (playlist names, titles, search terms) *)
(* are sequences of character codes, so that lower() and the whitespace    *)
(* removal are computed and not assumed.                                   *)
(***************************************************************************)
EXTENDS Integers, Sequences, FiniteSets

VARIABLES
    flag,       \* video.flag of every video of the library (None: unflagged)
    state,      \* VideoPlayback.state
    video,      \* the video VideoPlayback holds (None: no video)
    playlists,  \* VideoPlayer._playlists: key -> Playlist (name, videos)
    events,     \* what the last operation printed and called, in order
    listed      \* the playlist names the last operation listed, in order

vars == <<flag, state, video, playlists, events, listed>>

----------------------------------------------------------------------------
(* Bounds of the model. *)

\* Longest playlist name an operation is given.
MaxNameLen == 2

\* Most playlists the store holds at once.
MaxPlaylists == 2

----------------------------------------------------------------------------
(* Values. *)

None == "None"

STOPPED == "STOPPED"
PLAYING == "PLAYING"
PAUSED == "PAUSED"

PlaybackState == {STOPPED, PLAYING, PAUSED}

\* The library's videos, in the library's fixed order.
LibraryOrder == <<"v1", "v2">>

VideoIds == {LibraryOrder[i] : i \in 1..Len(LibraryOrder)}

\* An id the library does not hold.
MissingId == "nx"

IdInputs == VideoIds \cup {MissingId}

\* Character codes: space, "A", "a".
Chars == {32, 65, 97}

Whitespace == {32}

RECURSIVE SeqsUpTo(_, _)
SeqsUpTo(S, n) ==
    IF n = 0 THEN {<<>>}
    ELSE LET shorter == SeqsUpTo(S, n - 1)
         IN  shorter \cup {Append(s, c) : s \in shorter, c \in S}

\* The playlist names the operations are given.
NameInputs == SeqsUpTo(Chars, MaxNameLen)

\* The titles and tags of the library's videos: "ba" and "Ab"; "#a", and
\* "#A" and "#b".
Title(id) == IF id = "v1" THEN <<98, 97>> ELSE <<65, 98>>

Tags(id) == IF id = "v1" THEN {<<35, 97>>} ELSE {<<35, 65>>, <<35, 98>>}

\* The search terms: "B", "#A", "c".
TermInputs == {<<66>>, <<35, 65>>, <<99>>}

\* The lines read after a search: "", "n", "0", "1", "2", "3", and the
\* superscript two (code 178), which is numeric and no decimal digit.
AnswerInputs == {<<>>, <<110>>, <<48>>, <<49>>, <<50>>, <<51>>, <<178>>}

\* The reason flag_video is given: "", its default argument.
ReasonInputs == {""}

----------------------------------------------------------------------------
(* str.lower() and ''.join(s.split()). *)

LowerChar(c) == IF c >= 65 /\ c <= 90 THEN c + 32 ELSE c

Lower(s) == [i \in 1..Len(s) |-> LowerChar(s[i])]

IsNotWhitespace(c) == c \notin Whitespace

RemoveWhitespace(s) == SelectSeq(s, IsNotWhitespace)

----------------------------------------------------------------------------
(* An event: a line printed, or a call on the playback object.  A printed  *)
(* line is recorded by its fixed text and the value formatted into it; the *)
(* playlist name echoed by the playlist messages is left out.              *)

Printed(kind, arg) == <<"print", kind, arg>>

Called(method, arg) == <<"call", method, arg>>

\* input(): a line read from the console.
ReadLine == <<"read", "input", "">>

\* An exception that leaves the operation uncaught.
Raised(error) == <<"raise", error, "">>

\* The world an operation runs in; events collects what it prints and calls.
World ==
    [flag |-> flag, state |-> state, video |-> video,
     playlists |-> playlists, events |-> <<>>, listed |-> <<>>]

Emit(w, e) == [w EXCEPT !.events = Append(@, e)]

\* Python truthiness of an optional string: None and "" are false.
Truthy(x) == x # None /\ x # ""

----------------------------------------------------------------------------
(* VideoLibrary. *)

\* VideoLibrary.get_video: the video, or None.
get_video(id) == IF id \in VideoIds THEN id ELSE None

\* VideoLibrary.__getitem__ raises VideoLibraryError for an unknown id.
LibraryRaises(id) == id \notin VideoIds

VideoLibraryError == "Video does not exist"

\* VideoLibrary.get_unflagged_videos, in the library's order.
IsUnflaggedIn(w, id) == ~Truthy(w.flag[id])

get_unflagged_videos(w) ==
    LET unflagged(id) == IsUnflaggedIn(w, id)
    IN  SelectSeq(LibraryOrder, unflagged)

\* VideoLibrary.get_random_video_id: what it can return.
get_random_video_id(w) ==
    LET ids == {id \in VideoIds : IsUnflaggedIn(w, id)}
    IN  IF ids = {} THEN {None} ELSE ids

----------------------------------------------------------------------------
(* VideoPlayback. *)

VideoPlaybackError == "No video is currently playing"

\* VideoPlayback.get_video raises VideoPlaybackError when nothing is current.
PlaybackRaises(w) == w.state = STOPPED

PlaybackPlay(w, v) ==
    Emit([w EXCEPT !.state = PLAYING, !.video = v], Called("play", v))

PlaybackPause(w) ==
    Emit([w EXCEPT !.state = PAUSED], Called("pause", ""))

PlaybackStop(w) ==
    Emit([w EXCEPT !.state = STOPPED, !.video = None], Called("stop", ""))

----------------------------------------------------------------------------
(* VideoPlayer: playback operations. *)

stop_video(w) ==
    IF PlaybackRaises(w)
    THEN Emit(w, Printed("Cannot stop video", VideoPlaybackError))
    ELSE PlaybackStop(Emit(w, Printed("Stopping video", w.video)))

\* Mutants of play_video: the current video is not stopped; the video is
\* fetched with get_video and played unchecked; the stop comes before the
\* lookup.
play_video_NoStop(w, video_id) ==
    IF LibraryRaises(video_id)
    THEN Emit(w, Printed("Cannot play video", VideoLibraryError))
    ELSE IF Truthy(w.flag[video_id])
         THEN Emit(w, Printed("Cannot play video: Video is currently flagged",
                              w.flag[video_id]))
         ELSE Emit(PlaybackPlay(w, video_id), Printed("Playing video", video_id))

play_video_Unchecked(w, video_id) ==
    LET w1 == IF w.state # STOPPED THEN stop_video(w) ELSE w
    IN  IF video_id \in VideoIds /\ Truthy(w1.flag[video_id])
        THEN Emit(w1, Printed("Cannot play video: Video is currently flagged",
                              w1.flag[video_id]))
        ELSE Emit(PlaybackPlay(w1, get_video(video_id)),
                  Printed("Playing video", video_id))

play_video_StopsBeforeLookup(w, video_id) ==
    LET w1 == IF w.state # STOPPED THEN stop_video(w) ELSE w
    IN  IF LibraryRaises(video_id)
        THEN Emit(w1, Printed("Cannot play video", VideoLibraryError))
        ELSE IF Truthy(w1.flag[video_id])
             THEN Emit(w1, Printed("Cannot play video: Video is currently flagged",
                                   w1.flag[video_id]))
             ELSE Emit(PlaybackPlay(w1, video_id),
                       Printed("Playing video", video_id))

\* Mutant of play_video: the flag is looked at before the current video is
\* stopped.
play_video_FlagBeforeStop(w, video_id) ==
    IF LibraryRaises(video_id)
    THEN Emit(w, Printed("Cannot play video", VideoLibraryError))
    ELSE IF Truthy(w.flag[video_id])
         THEN Emit(w, Printed("Cannot play video: Video is currently flagged",
                              w.flag[video_id]))
         ELSE LET w1 == IF w.state # STOPPED THEN stop_video(w) ELSE w
              IN  Emit(PlaybackPlay(w1, video_id),
                       Printed("Playing video", video_id))

play_video(w, video_id) ==
    IF LibraryRaises(video_id)
    THEN Emit(w, Printed("Cannot play video", VideoLibraryError))
    ELSE LET w1 == IF w.state # STOPPED THEN stop_video(w) ELSE w
         IN  IF Truthy(w1.flag[video_id])
             THEN Emit(w1, Printed("Cannot play video: Video is currently flagged",
                                   w1.flag[video_id]))
             ELSE Emit(PlaybackPlay(w1, video_id),
                       Printed("Playing video", video_id))

\* Mutant of play_random_video: None is not told from an id.
play_random_video_NoNoneCheck(w, chosen) == play_video(w, chosen)

play_random_video(w, chosen) ==
    IF chosen = None
    THEN Emit(w, Printed("No videos available", ""))
    ELSE play_video(w, chosen)

\* Mutant of pause_video: no special case for a paused video.
pause_video_NoPausedCheck(w) ==
    IF PlaybackRaises(w)
    THEN Emit(w, Printed("Cannot pause video", VideoPlaybackError))
    ELSE PlaybackPause(Emit(w, Printed("Pausing video", w.video)))

\* Mutant of pause_video: no check that a video is current.
pause_video_NoVideoCheck(w) ==
    IF w.state = PAUSED
    THEN Emit(w, Printed("Video already paused", w.video))
    ELSE PlaybackPause(Emit(w, Printed("Pausing video", w.video)))

pause_video(w) ==
    IF PlaybackRaises(w)
    THEN Emit(w, Printed("Cannot pause video", VideoPlaybackError))
    ELSE IF w.state = PAUSED
         THEN Emit(w, Printed("Video already paused", w.video))
         ELSE PlaybackPause(Emit(w, Printed("Pausing video", w.video)))

\* Mutant of continue_video: the state is not compared with PAUSED.
continue_video_NoStateCheck(w) ==
    IF PlaybackRaises(w)
    THEN Emit(w, Printed("Cannot continue video", VideoPlaybackError))
    ELSE PlaybackPlay(Emit(w, Printed("Continuing video", w.video)), w.video)

continue_video(w) ==
    IF PlaybackRaises(w)
    THEN Emit(w, Printed("Cannot continue video", VideoPlaybackError))
    ELSE IF w.state # PAUSED
         THEN Emit(w, Printed("Cannot continue video", "Video is not paused"))
         ELSE PlaybackPlay(Emit(w, Printed("Continuing video", w.video)), w.video)

show_playing(w) ==
    IF PlaybackRaises(w)
    THEN Emit(w, Printed("Cannot get information on currently playing video",
                         VideoPlaybackError))
    ELSE IF w.state = STOPPED
         THEN Emit(w, Printed("No video is currently playing", ""))
         ELSE Emit(w, Printed(IF w.state = PAUSED
                              THEN "Currently playing - PAUSED"
                              ELSE "Currently playing", w.video))

----------------------------------------------------------------------------
(* VideoPlayer: flagging. *)

\* Mutants of flag_video: the current video is not stopped; whatever video
\* is current is stopped.
flag_video_NoStop(w, video_id, flag_reason) ==
    IF LibraryRaises(video_id)
    THEN Emit(w, Printed("Cannot flag video", VideoLibraryError))
    ELSE IF Truthy(w.flag[video_id])
    THEN Emit(w, Printed("Cannot flag video", "Video is already flagged"))
    ELSE LET reason == IF flag_reason = "" THEN "Not supplied" ELSE flag_reason
         IN  Emit([w EXCEPT !.flag[video_id] = reason],
                  Printed("Successfully flagged video", reason))

flag_video_StopsAny(w, video_id, flag_reason) ==
    IF LibraryRaises(video_id)
    THEN Emit(w, Printed("Cannot flag video", VideoLibraryError))
    ELSE IF Truthy(w.flag[video_id])
    THEN Emit(w, Printed("Cannot flag video", "Video is already flagged"))
    ELSE LET reason == IF flag_reason = "" THEN "Not supplied" ELSE flag_reason
             w1 == IF w.state # STOPPED THEN stop_video(w) ELSE w
         IN  Emit([w1 EXCEPT !.flag[video_id] = reason],
                  Printed("Successfully flagged video", reason))

\* Mutant of flag_video: the flagged video is also taken out of every playlist.
flag_video_DropsFromPlaylists(w, video_id, flag_reason) ==
    IF LibraryRaises(video_id)
    THEN Emit(w, Printed("Cannot flag video", VideoLibraryError))
    ELSE IF Truthy(w.flag[video_id])
    THEN Emit(w, Printed("Cannot flag video", "Video is already flagged"))
    ELSE LET reason == IF flag_reason = "" THEN "Not supplied" ELSE flag_reason
             w1 == IF w.state # STOPPED /\ w.video = video_id
                   THEN stop_video(w) ELSE w
             other(v) == v # video_id
             w2 == [w1 EXCEPT !.flag[video_id] = reason,
                              !.playlists = [k \in DOMAIN @ |->
                                  [@[k] EXCEPT !.videos = SelectSeq(@, other)]]]
         IN  Emit(w2, Printed("Successfully flagged video", reason))

flag_video(w, video_id, flag_reason) ==
    IF LibraryRaises(video_id)
    THEN Emit(w, Printed("Cannot flag video", VideoLibraryError))
    ELSE IF Truthy(w.flag[video_id])
    THEN Emit(w, Printed("Cannot flag video", "Video is already flagged"))
    ELSE LET reason == IF flag_reason = "" THEN "Not supplied" ELSE flag_reason
             w1 == IF w.state # STOPPED /\ w.video = video_id
                   THEN stop_video(w) ELSE w
             w2 == [w1 EXCEPT !.flag[video_id] = reason]
         IN  Emit(w2, Printed("Successfully flagged video", reason))

allow_video(w, video_id) ==
    IF LibraryRaises(video_id)
    THEN Emit(w, Printed("Cannot remove flag from video", VideoLibraryError))
    ELSE IF ~Truthy(w.flag[video_id])
    THEN Emit(w, Printed("Cannot remove flag from video", "Video is not flagged"))
    ELSE Emit([w EXCEPT !.flag[video_id] = None],
              Printed("Successfully removed flag from video", video_id))

----------------------------------------------------------------------------
(* VideoPlayer: playlists.  A Playlist is its display name and its videos. *)

Playlist(name) == [name |-> name, videos |-> <<>>]

Contains(seq, x) == \E i \in 1..Len(seq) : seq[i] = x

\* Mutant of list.remove: list.pop(0), whatever x is.
ListRemove_PopFirst(seq, x) == Tail(seq)

\* list.remove: drops the first occurrence.
ListRemove(seq, x) ==
    LET first == CHOOSE i \in 1..Len(seq) :
                     seq[i] = x /\ \A j \in 1..(i - 1) : seq[j] # x
    IN  [i \in 1..(Len(seq) - 1) |-> IF i < first THEN seq[i] ELSE seq[i + 1]]

\* dict[key] = value and del dict[key].
DictSet(d, key, value) ==
    [k \in DOMAIN d \cup {key} |-> IF k = key THEN value ELSE d[k]]

DictDel(d, key) == [k \in DOMAIN d \ {key} |-> d[k]]

\* Mutant of create_playlist: the name is looked up as given, not lower-cased.
create_playlist_CaseSensitive(w, playlist_name) ==
    LET name == RemoveWhitespace(playlist_name)
    IN  IF name \in DOMAIN w.playlists
        THEN Emit(w, Printed("Cannot create playlist",
                             "A playlist with the same name already exists"))
        ELSE Emit([w EXCEPT !.playlists = DictSet(@, Lower(name), Playlist(name))],
                  Printed("Successfully created new playlist", ""))

create_playlist(w, playlist_name) ==
    LET name == RemoveWhitespace(playlist_name)
    IN  IF Lower(name) \in DOMAIN w.playlists
        THEN Emit(w, Printed("Cannot create playlist",
                             "A playlist with the same name already exists"))
        ELSE Emit([w EXCEPT !.playlists = DictSet(@, Lower(name), Playlist(name))],
                  Printed("Successfully created new playlist", ""))

\* Mutants of add_to_playlist: the flag is not looked at; membership is not
\* looked at; the video is looked at before the playlist.
add_to_playlist_NoFlagCheck(w, playlist_name, video_id) ==
    LET v == get_video(video_id)
        key == Lower(playlist_name)
    IN  IF key \notin DOMAIN w.playlists
        THEN Emit(w, Printed("Cannot add video", "Playlist does not exist"))
        ELSE IF v = None
        THEN Emit(w, Printed("Cannot add video", "Video does not exist"))
        ELSE IF Contains(w.playlists[key].videos, v)
        THEN Emit(w, Printed("Cannot add video", "Video already added"))
        ELSE Emit([w EXCEPT !.playlists[key].videos = Append(@, v)],
                  Printed("Added video", v))

add_to_playlist_NoMemberCheck(w, playlist_name, video_id) ==
    LET v == get_video(video_id)
        key == Lower(playlist_name)
    IN  IF key \notin DOMAIN w.playlists
        THEN Emit(w, Printed("Cannot add video", "Playlist does not exist"))
        ELSE IF v = None
        THEN Emit(w, Printed("Cannot add video", "Video does not exist"))
        ELSE IF Truthy(w.flag[v])
        THEN Emit(w, Printed("Cannot add video: Video is currently flagged",
                             w.flag[v]))
        ELSE Emit([w EXCEPT !.playlists[key].videos = Append(@, v)],
                  Printed("Added video", v))

add_to_playlist_VideoFirst(w, playlist_name, video_id) ==
    LET v == get_video(video_id)
        key == Lower(playlist_name)
    IN  IF v = None
        THEN Emit(w, Printed("Cannot add video", "Video does not exist"))
        ELSE IF key \notin DOMAIN w.playlists
        THEN Emit(w, Printed("Cannot add video", "Playlist does not exist"))
        ELSE IF Truthy(w.flag[v])
        THEN Emit(w, Printed("Cannot add video: Video is currently flagged",
                             w.flag[v]))
        ELSE IF Contains(w.playlists[key].videos, v)
        THEN Emit(w, Printed("Cannot add video", "Video already added"))
        ELSE Emit([w EXCEPT !.playlists[key].videos = Append(@, v)],
                  Printed("Added video", v))

add_to_playlist(w, playlist_name, video_id) ==
    LET v == get_video(video_id)
        key == Lower(playlist_name)
    IN  IF key \notin DOMAIN w.playlists
        THEN Emit(w, Printed("Cannot add video", "Playlist does not exist"))
        ELSE IF v = None
        THEN Emit(w, Printed("Cannot add video", "Video does not exist"))
        ELSE IF Truthy(w.flag[v])
        THEN Emit(w, Printed("Cannot add video: Video is currently flagged",
                             w.flag[v]))
        ELSE IF Contains(w.playlists[key].videos, v)
        THEN Emit(w, Printed("Cannot add video", "Video already added"))
        ELSE Emit([w EXCEPT !.playlists[key].videos = Append(@, v)],
                  Printed("Added video", v))

remove_from_playlist(w, playlist_name, video_id) ==
    LET v == get_video(video_id)
        key == Lower(playlist_name)
    IN  IF key \notin DOMAIN w.playlists
        THEN Emit(w, Printed("Cannot remove video", "Playlist does not exist"))
        ELSE IF v = None
        THEN Emit(w, Printed("Cannot remove video", "Video does not exist"))
        ELSE IF ~Contains(w.playlists[key].videos, v)
        THEN Emit(w, Printed("Cannot remove video", "Video is not in playlist"))
        ELSE Emit([w EXCEPT !.playlists[key].videos = ListRemove(@, v)],
                  Printed("Removed video", v))

clear_playlist(w, playlist_name) ==
    LET key == Lower(playlist_name)
    IN  IF key \notin DOMAIN w.playlists
        THEN Emit(w, Printed("Cannot clear playlist", "Playlist does not exist"))
        ELSE Emit([w EXCEPT !.playlists[key].videos = <<>>],
                  Printed("Successfully removed all videos", ""))

delete_playlist(w, playlist_name) ==
    LET key == Lower(playlist_name)
    IN  IF key \notin DOMAIN w.playlists
        THEN Emit(w, Printed("Cannot delete playlist", "Playlist does not exist"))
        ELSE Emit([w EXCEPT !.playlists = DictDel(@, key)],
                  Printed("Deleted playlist", ""))

RECURSIVE EmitVideos(_, _)
EmitVideos(w, videos) ==
    IF videos = <<>> THEN w
    ELSE EmitVideos(Emit(w, Printed("video", Head(videos))), Tail(videos))

show_playlist(w, playlist_name) ==
    LET key == Lower(playlist_name)
    IN  IF key \notin DOMAIN w.playlists
        THEN Emit(w, Printed("Cannot show playlist", "Playlist does not exist"))
        ELSE LET w1 == Emit(w, Printed("Showing playlist", ""))
             IN  IF w.playlists[key].videos = <<>>
                 THEN Emit(w1, Printed("No videos here yet", ""))
                 ELSE EmitVideos(w1, w.playlists[key].videos)

\* The order of str: by character code, a proper prefix first.
RECURSIVE StrLess(_, _)
StrLess(a, b) ==
    IF b = <<>> THEN FALSE
    ELSE IF a = <<>> THEN TRUE
    ELSE IF Head(a) # Head(b) THEN Head(a) < Head(b)
    ELSE StrLess(Tail(a), Tail(b))

\* sorted(keys): the keys in ascending order.
RECURSIVE SortedKeys(_)
SortedKeys(keys) ==
    IF keys = {} THEN <<>>
    ELSE LET least == CHOOSE k \in keys : \A o \in keys \ {k} : StrLess(k, o)
         IN  <<least>> \o SortedKeys(keys \ {least})

\* Mutant of show_all_playlists: sorted by the display names, not the keys.
show_all_playlists_ByName(w) ==
    IF Cardinality(DOMAIN w.playlists) = 0
    THEN Emit(w, Printed("No playlists exist yet", ""))
    ELSE [Emit(w, Printed("Showing all playlists", ""))
             EXCEPT !.listed = SortedKeys({w.playlists[k].name : k \in DOMAIN w.playlists})]

show_all_playlists(w) ==
    IF Cardinality(DOMAIN w.playlists) = 0
    THEN Emit(w, Printed("No playlists exist yet", ""))
    ELSE LET order == SortedKeys(DOMAIN w.playlists)
         IN  [Emit(w, Printed("Showing all playlists", ""))
                 EXCEPT !.listed = [i \in 1..Len(order) |-> w.playlists[order[i]].name]]

----------------------------------------------------------------------------
(* VideoPlayer: search. *)

\* a in b, for strings.
IsSubstring(a, b) ==
    \E i \in 0..(Len(b) - Len(a)) : SubSeq(b, i + 1, i + Len(a)) = a

\* sorted(result, key=title): stable, ascending.
RECURSIVE InsertByTitle(_, _)
InsertByTitle(sorted, id) ==
    IF sorted = <<>> THEN <<id>>
    ELSE IF StrLess(Title(id), Title(Head(sorted)))
    THEN <<id>> \o sorted
    ELSE <<Head(sorted)>> \o InsertByTitle(Tail(sorted), id)

\* Mutant of sorted(result, key=title): the results are left in the library's
\* order.
SortedByTitle_Unsorted(result) == result

RECURSIVE SortedByTitle(_)
SortedByTitle(result) ==
    IF result = <<>> THEN <<>>
    ELSE InsertByTitle(SortedByTitle(SubSeq(result, 1, Len(result) - 1)),
                       result[Len(result)])

\* str.isnumeric and int: "0".."9" are numeric and decimal digits; the
\* superscript two is numeric, and int raises ValueError on it.
IsDigit(c) == c >= 48 /\ c <= 57

IsNumericChar(c) == IsDigit(c) \/ c = 178

IsNumeric(s) == s # <<>> /\ \A i \in 1..Len(s) : IsNumericChar(s[i])

IntRaises(s) == \E i \in 1..Len(s) : ~IsDigit(s[i])

RECURSIVE ParseInt(_)
ParseInt(s) ==
    IF s = <<>> THEN 0
    ELSE 10 * ParseInt(SubSeq(s, 1, Len(s) - 1)) + (s[Len(s)] - 48)

RECURSIVE EmitResults(_, _)
EmitResults(w, ordered) ==
    IF ordered = <<>> THEN w
    ELSE EmitResults(Emit(w, Printed("result", Head(ordered))), Tail(ordered))

\* Mutant of _search_general: the prompt and the read come whatever the
\* number of results.
search_general_AlwaysPrompts(w, result, answer) ==
    LET ordered == SortedByTitle(result)
        w0 == IF ordered = <<>>
              THEN Emit(w, Printed("No search results", ""))
              ELSE EmitResults(Emit(w, Printed("Here are the results", "")), ordered)
        w2 == Emit(Emit(w0, Printed("Would you like to play any of the above?", "")),
                   ReadLine)
    IN  IF ~IsNumeric(answer) THEN w2
        ELSE IF IntRaises(answer) THEN Emit(w2, Raised("ValueError"))
        ELSE IF 0 < ParseInt(answer) /\ ParseInt(answer) <= Len(ordered)
        THEN play_video(w2, ordered[ParseInt(answer)])
        ELSE w2

search_general(w, result, answer) ==
    LET ordered == SortedByTitle(result)
    IN  IF ordered = <<>>
        THEN Emit(w, Printed("No search results", ""))
        ELSE LET w1 == EmitResults(Emit(w, Printed("Here are the results", "")),
                                   ordered)
                 w2 == Emit(Emit(w1, Printed("Would you like to play any of the above?",
                                             "")),
                            ReadLine)
             IN  IF ~IsNumeric(answer) THEN w2
                 ELSE IF IntRaises(answer) THEN Emit(w2, Raised("ValueError"))
                 ELSE IF 0 < ParseInt(answer) /\ ParseInt(answer) <= Len(ordered)
                 THEN play_video(w2, ordered[ParseInt(answer)])
                 ELSE w2

search_videos(w, search_term, answer) ==
    LET matches(id) == IsSubstring(Lower(search_term), Lower(Title(id)))
    IN  search_general(w, SelectSeq(get_unflagged_videos(w), matches), answer)

search_videos_tag(w, video_tag, answer) ==
    LET matches(id) == Lower(video_tag) \in {Lower(t) : t \in Tags(id)}
    IN  search_general(w, SelectSeq(get_unflagged_videos(w), matches), answer)

----------------------------------------------------------------------------
(* The state machine: one action per operation of VideoPlayer. *)

Init ==
    /\ flag = [id \in VideoIds |-> None]
    /\ state = STOPPED
    /\ video = None
    /\ playlists = [k \in {} |-> Playlist(<<>>)]
    /\ events = <<>>
    /\ listed = <<>>

Apply(w) ==
    /\ flag' = w.flag
    /\ state' = w.state
    /\ video' = w.video
    /\ playlists' = w.playlists
    /\ events' = w.events
    /\ listed' = w.listed

PlayVideo == \E id \in IdInputs : Apply(play_video(World, id))

StopVideo == Apply(stop_video(World))

PlayRandomVideo ==
    \E chosen \in get_random_video_id(World) : Apply(play_random_video(World, chosen))

PauseVideo == Apply(pause_video(World))

ContinueVideo == Apply(continue_video(World))

ShowPlaying == Apply(show_playing(World))

FlagVideo ==
    \E id \in IdInputs, reason \in ReasonInputs : Apply(flag_video(World, id, reason))

AllowVideo == \E id \in IdInputs : Apply(allow_video(World, id))

\* The store is kept to MaxPlaylists playlists: a create that would add one
\* more is left out of the model.
CreatePlaylist ==
    \E name \in NameInputs :
        /\ \/ Cardinality(DOMAIN playlists) < MaxPlaylists
           \/ Lower(RemoveWhitespace(name)) \in DOMAIN playlists
        /\ Apply(create_playlist(World, name))

AddToPlaylist ==
    \E name \in NameInputs, id \in IdInputs : Apply(add_to_playlist(World, name, id))

RemoveFromPlaylist ==
    \E name \in NameInputs, id \in IdInputs :
        Apply(remove_from_playlist(World, name, id))

ClearPlaylist == \E name \in NameInputs : Apply(clear_playlist(World, name))

DeletePlaylist == \E name \in NameInputs : Apply(delete_playlist(World, name))

ShowPlaylist == \E name \in NameInputs : Apply(show_playlist(World, name))

ShowAllPlaylists == Apply(show_all_playlists(World))

SearchVideos ==
    \E term \in TermInputs, answer \in AnswerInputs :
        Apply(search_videos(World, term, answer))

SearchVideosTag ==
    \E tag \in TermInputs, answer \in AnswerInputs :
        Apply(search_videos_tag(World, tag, answer))

Next ==
    \/ PlayVideo
    \/ StopVideo
    \/ PlayRandomVideo
    \/ PauseVideo
    \/ ContinueVideo
    \/ ShowPlaying
    \/ FlagVideo
    \/ AllowVideo
    \/ CreatePlaylist
    \/ AddToPlaylist
    \/ RemoveFromPlaylist
    \/ ClearPlaylist
    \/ DeletePlaylist
    \/ ShowPlaylist
    \/ ShowAllPlaylists
    \/ SearchVideos
    \/ SearchVideosTag

Spec == Init /\ [][Next]_vars

----------------------------------------------------------------------------
(* Shorthands of the properties. *)

\* The world the next operation sees after an operation has ended in w.
Then(w) == [w EXCEPT !.events = <<>>, !.listed = <<>>]

SamePlayback(w) == w.state = state /\ w.video = video

SameFlags(w) == w.flag = flag

SamePlaylists(w) == w.playlists = playlists

\* What create_playlist makes of a name: whitespace removed, lower-cased.
NormalizedKey(name) == Lower(RemoveWhitespace(name))

NotFoundPlaylist(w) ==
    /\ Len(w.events) = 1
    /\ w.events[1][3] = "Playlist does not exist"

----------------------------------------------------------------------------
(* C1: there is at most one current video, and play(A) of an existing,     *)
(* unflagged video A while a video B is current first stops B (B's stop    *)
(* report, then the stop that leaves the playback STOPPED with no video)   *)
(* and only then starts A, ending PLAYING with A current.                  *)
C1_PlayStopsCurrentFirst ==
    /\ video \in VideoIds \cup {None}
    /\ \A a \in VideoIds :
        (state # STOPPED /\ ~Truthy(flag[a])) =>
            LET stopped == stop_video(World)
                r == play_video(World, a)
            IN  /\ stopped.events = <<Printed("Stopping video", video),
                                      Called("stop", "")>>
                /\ stopped.state = STOPPED /\ stopped.video = None
                /\ r.events = stopped.events
                                \o <<Called("play", a), Printed("Playing video", a)>>
                /\ r.state = PLAYING /\ r.video = a

C1_Witness ==
    /\ state = PLAYING /\ video = "v2"
    /\ events = <<Printed("Stopping video", "v1"), Called("stop", ""),
                  Called("play", "v2"), Printed("Playing video", "v2")>>

(* C2: the playback holds a current video iff its state is not STOPPED.    *)
C2_VideoIffNotStopped == (video # None) <=> (state # STOPPED)

C2_Witness ==
    /\ state = PAUSED /\ video \in VideoIds
    /\ DOMAIN playlists # {}
    /\ \E id \in VideoIds : Truthy(flag[id])

(* C3: for an id the library does not hold, play, flag and allow each      *)
(* report that the video does not exist and change neither the playback,   *)
(* nor any flag, nor the playlists, whatever the playback state.           *)
C3_UnknownIdChangesNothing ==
    \A id \in IdInputs \ VideoIds :
        /\ LET r == play_video(World, id)
           IN  /\ r.events = <<Printed("Cannot play video", VideoLibraryError)>>
               /\ SamePlayback(r) /\ SameFlags(r) /\ SamePlaylists(r)
        /\ \A reason \in ReasonInputs :
            LET r == flag_video(World, id, reason)
            IN  /\ r.events = <<Printed("Cannot flag video", VideoLibraryError)>>
                /\ SamePlayback(r) /\ SameFlags(r) /\ SamePlaylists(r)
        /\ LET r == allow_video(World, id)
           IN  /\ r.events = <<Printed("Cannot remove flag from video",
                                       VideoLibraryError)>>
               /\ SamePlayback(r) /\ SameFlags(r) /\ SamePlaylists(r)

C3_Witness ==
    /\ events = <<Printed("Cannot play video", VideoLibraryError)>>
    /\ state = PLAYING
    /\ DOMAIN playlists # {}

(* C4: the current video, if any, is unflagged.                            *)
C4_CurrentVideoUnflagged == video \in VideoIds => ~Truthy(flag[video])

C4_Witness ==
    /\ state # STOPPED
    /\ \E id \in VideoIds : Truthy(flag[id])
    /\ events = <<Printed("Successfully flagged video", "Not supplied")>>

(* C5: flag(id) of an existing, unflagged video stops the playback (no     *)
(* current video) when that video is the current one, and leaves the       *)
(* playback as it is otherwise; either way the flag is set.                *)
C5_FlagStopsOnlyCurrent ==
    \A id \in VideoIds, reason \in ReasonInputs :
        ~Truthy(flag[id]) =>
            LET r == flag_video(World, id, reason)
            IN  /\ Truthy(r.flag[id])
                /\ \A o \in VideoIds \ {id} : r.flag[o] = flag[o]
                /\ IF state # STOPPED /\ video = id
                   THEN r.state = STOPPED /\ r.video = None
                   ELSE SamePlayback(r)

C5_Witness ==
    /\ events = <<Printed("Stopping video", "v1"), Called("stop", ""),
                  Printed("Successfully flagged video", "Not supplied")>>
    /\ state = STOPPED /\ video = None /\ Truthy(flag["v1"])

(* C6: with a video PLAYING, a first pause() leaves it PAUSED, and a second *)
(* pause() reports "already paused" and changes neither the state nor the  *)
(* current video.                                                          *)
C6_PauseTwice ==
    state = PLAYING =>
        LET first == pause_video(World)
            second == pause_video(Then(first))
        IN  /\ first.state = PAUSED /\ first.video = video
            /\ second.events = <<Printed("Video already paused", video)>>
            /\ second.state = PAUSED /\ second.video = video
            /\ second.flag = flag /\ second.playlists = playlists

C6_Witness ==
    /\ events = <<Printed("Video already paused", "v1")>>
    /\ state = PAUSED /\ video = "v1"

(* C7 as stated: resume() succeeds only from PAUSED (then PLAYING, same     *)
(* video); from STOPPED it reports NotPaused and from PLAYING it reports   *)
(* NoVideoPlaying, the playback unchanged.                                 *)
C7_ResumeReportsAsStated ==
    LET r == continue_video(World)
    IN  /\ state = PAUSED => r.state = PLAYING /\ r.video = video
        /\ state = STOPPED =>
              /\ r.events = <<Printed("Cannot continue video", "Video is not paused")>>
              /\ SamePlayback(r)
        /\ state = PLAYING =>
              /\ r.events = <<Printed("Cannot continue video", VideoPlaybackError)>>
              /\ SamePlayback(r)

(* C7, amended: resume() succeeds only from PAUSED (then PLAYING, same     *)
(* video); from STOPPED it reports NoVideoPlaying and from PLAYING it      *)
(* reports NotPaused, and in both cases nothing changes.                   *)
C7_ResumeOnlyFromPaused ==
    LET r == continue_video(World)
    IN  /\ state = PAUSED =>
              /\ r.events = <<Printed("Continuing video", video),
                              Called("play", video)>>
              /\ r.state = PLAYING /\ r.video = video
        /\ state = STOPPED =>
              /\ r.events = <<Printed("Cannot continue video", VideoPlaybackError)>>
              /\ SamePlayback(r)
        /\ state = PLAYING =>
              /\ r.events = <<Printed("Cannot continue video", "Video is not paused")>>
              /\ SamePlayback(r)
        /\ SameFlags(r) /\ SamePlaylists(r)

C7_Witness ==
    /\ events = <<Printed("Cannot continue video", "Video is not paused")>>
    /\ state = PLAYING /\ video = "v2"

(* C8: create_playlist of a name whose normalized key (whitespace removed, *)
(* lower-cased) is the key of an existing playlist reports DuplicateName   *)
(* and leaves the store as it is; and every stored playlist sits under the *)
(* normalized key of its own name, so no two share a normalized key.       *)
C8_DuplicateNameRejected ==
    /\ \A name \in NameInputs :
        NormalizedKey(name) \in DOMAIN playlists =>
            LET r == create_playlist(World, name)
            IN  /\ r.events = <<Printed("Cannot create playlist",
                                        "A playlist with the same name already exists")>>
                /\ SamePlaylists(r) /\ SamePlayback(r) /\ SameFlags(r)
    /\ \A k \in DOMAIN playlists : NormalizedKey(playlists[k].name) = k
    /\ \A name \in NameInputs :
        LET r == create_playlist(World, name)
        IN  \A k \in DOMAIN r.playlists : NormalizedKey(r.playlists[k].name) = k

C8_Witness ==
    /\ events = <<Printed("Cannot create playlist",
                          "A playlist with the same name already exists")>>
    /\ \E k \in DOMAIN playlists :
        /\ playlists[k].name # k
        /\ playlists[k].videos # <<>>

(* C9: a name M whose whitespace-stripped, lower-cased form is that of the *)
(* name a playlist was created with finds that playlist: add, remove,      *)
(* clear, delete and show never report that the playlist does not exist.   *)
C9_LookupNormalizesLikeCreate ==
    \A m \in NameInputs :
        NormalizedKey(m) \in DOMAIN playlists =>
            /\ \A id \in IdInputs :
                /\ ~NotFoundPlaylist(add_to_playlist(World, m, id))
                /\ ~NotFoundPlaylist(remove_from_playlist(World, m, id))
            /\ ~NotFoundPlaylist(clear_playlist(World, m))
            /\ ~NotFoundPlaylist(delete_playlist(World, m))
            /\ ~NotFoundPlaylist(show_playlist(World, m))

(* C10: for a name that finds a playlist P and an existing, unflagged      *)
(* video V that is not in P, add_to_playlist then remove_from_playlist     *)
(* both succeed and leave every playlist, P's sequence included, exactly   *)
(* as it was before the add.                                               *)
C10_AddRemoveRoundTrip ==
    \A name \in NameInputs, v \in VideoIds :
        (/\ Lower(name) \in DOMAIN playlists
         /\ ~Truthy(flag[v])
         /\ ~Contains(playlists[Lower(name)].videos, v)) =>
            LET added == add_to_playlist(World, name, v)
                removed == remove_from_playlist(Then(added), name, v)
            IN  /\ added.events = <<Printed("Added video", v)>>
                /\ added.playlists[Lower(name)].videos
                       = Append(playlists[Lower(name)].videos, v)
                /\ removed.events = <<Printed("Removed video", v)>>
                /\ removed.playlists = playlists

C10_Witness ==
    /\ events = <<Printed("Removed video", "v2")>>
    /\ Cardinality(DOMAIN playlists) = 2
    /\ \E k \in DOMAIN playlists : playlists[k].videos = <<"v1">>


\* A sequence without a repeated element.
DuplicateFree(seq) == \A i, j \in 1..Len(seq) : seq[i] = seq[j] => i = j

(* C11 as stated: for every existing flagged video V and every playlist    *)
(* name, add_to_playlist(name, V) reports Flagged and changes no playlist. *)
C11_FlaggedAddAlwaysFlagged ==
    \A name \in NameInputs, v \in VideoIds :
        Truthy(flag[v]) =>
            LET r == add_to_playlist(World, name, v)
            IN  /\ r.events = <<Printed("Cannot add video: Video is currently flagged",
                                        flag[v])>>
                /\ SamePlaylists(r)

(* C11, amended: for every existing flagged video V, add_to_playlist(name, *)
(* V) changes no playlist; it reports Flagged when the name finds a        *)
(* playlist (V a member of it or not) and NotFound(playlist) when it finds *)
(* none.                                                                   *)
C11_FlaggedAddRejected ==
    \A name \in NameInputs, v \in VideoIds :
        Truthy(flag[v]) =>
            LET r == add_to_playlist(World, name, v)
            IN  /\ SamePlaylists(r) /\ SamePlayback(r) /\ SameFlags(r)
                /\ r.events =
                     IF Lower(name) \in DOMAIN playlists
                     THEN <<Printed("Cannot add video: Video is currently flagged",
                                    flag[v])>>
                     ELSE <<Printed("Cannot add video", "Playlist does not exist")>>

C11_Witness ==
    /\ events = <<Printed("Cannot add video: Video is currently flagged",
                          "Not supplied")>>
    /\ Truthy(flag["v1"])
    /\ \E k \in DOMAIN playlists : Contains(playlists[k].videos, "v1")

(* C12 as stated: every playlist's video sequence is duplicate-free, and   *)
(* add_to_playlist of a video that is already a member reports             *)
(* AlreadyMember and leaves the sequence unchanged.                        *)
C12_MemberAddAlwaysAlreadyMember ==
    /\ \A k \in DOMAIN playlists : DuplicateFree(playlists[k].videos)
    /\ \A name \in NameInputs, v \in VideoIds :
        (/\ Lower(name) \in DOMAIN playlists
         /\ Contains(playlists[Lower(name)].videos, v)) =>
            LET r == add_to_playlist(World, name, v)
            IN  /\ r.events = <<Printed("Cannot add video", "Video already added")>>
                /\ SamePlaylists(r)

(* C12, amended: every playlist's video sequence is duplicate-free, and    *)
(* add_to_playlist of a video that is already a member leaves the sequence *)
(* unchanged, reporting AlreadyMember when the video is unflagged and      *)
(* Flagged when it is flagged.                                             *)
C12_NoDuplicateMembers ==
    /\ \A k \in DOMAIN playlists : DuplicateFree(playlists[k].videos)
    /\ \A name \in NameInputs, v \in VideoIds :
        (/\ Lower(name) \in DOMAIN playlists
         /\ Contains(playlists[Lower(name)].videos, v)) =>
            LET r == add_to_playlist(World, name, v)
            IN  /\ SamePlaylists(r)
                /\ r.events =
                     IF Truthy(flag[v])
                     THEN <<Printed("Cannot add video: Video is currently flagged",
                                    flag[v])>>
                     ELSE <<Printed("Cannot add video", "Video already added")>>

C12_Witness ==
    /\ events = <<Printed("Cannot add video", "Video already added")>>
    /\ \E k \in DOMAIN playlists : Len(playlists[k].videos) = 2


\* Every operation on every input, run in the current state: its name and
\* the world it ends in.
Outcome(op, w) == [op |-> op, w |-> w]

EveryPlaybackOutcome(P(_)) ==
    /\ \A id \in IdInputs : P(Outcome("play_video", play_video(World, id)))
    /\ P(Outcome("stop_video", stop_video(World)))
    /\ \A chosen \in get_random_video_id(World) :
          P(Outcome("play_random_video", play_random_video(World, chosen)))
    /\ P(Outcome("pause_video", pause_video(World)))
    /\ P(Outcome("continue_video", continue_video(World)))
    /\ P(Outcome("show_playing", show_playing(World)))
    /\ \A term \in TermInputs, answer \in AnswerInputs :
          /\ P(Outcome("search_videos", search_videos(World, term, answer)))
          /\ P(Outcome("search_videos_tag", search_videos_tag(World, term, answer)))
    /\ \A id \in IdInputs, reason \in ReasonInputs :
          P(Outcome("flag_video", flag_video(World, id, reason)))
    /\ \A id \in IdInputs : P(Outcome("allow_video", allow_video(World, id)))

EveryPlaylistOutcome(P(_)) ==
    /\ \A name \in NameInputs :
          /\ P(Outcome("create_playlist", create_playlist(World, name)))
          /\ P(Outcome("clear_playlist", clear_playlist(World, name)))
          /\ P(Outcome("delete_playlist", delete_playlist(World, name)))
          /\ P(Outcome("show_playlist", show_playlist(World, name)))
    /\ \A name \in NameInputs, id \in IdInputs :
          /\ P(Outcome("add_to_playlist", add_to_playlist(World, name, id)))
          /\ P(Outcome("remove_from_playlist",
                       remove_from_playlist(World, name, id)))
    /\ P(Outcome("show_all_playlists", show_all_playlists(World)))

Ascending(names) ==
    \A i, j \in 1..Len(names) :
        i < j => StrLess(NormalizedKey(names[i]), NormalizedKey(names[j]))

(* C13: show_all_playlists reports that no playlists exist exactly when    *)
(* the store is empty; otherwise it lists the name of every stored         *)
(* playlist once, in ascending order of normalized key; it changes nothing. *)
C13_ShowAllSortedByKey ==
    LET r == show_all_playlists(World)
    IN  /\ SamePlaylists(r) /\ SamePlayback(r) /\ SameFlags(r)
        /\ (r.events = <<Printed("No playlists exist yet", "")>>)
              <=> (DOMAIN playlists = {})
        /\ DOMAIN playlists = {} => r.listed = <<>>
        /\ DOMAIN playlists # {} =>
              /\ r.events = <<Printed("Showing all playlists", "")>>
              /\ Len(r.listed) = Cardinality(DOMAIN playlists)
              /\ {NormalizedKey(r.listed[i]) : i \in 1..Len(r.listed)}
                     = DOMAIN playlists
              /\ \A i \in 1..Len(r.listed) :
                     r.listed[i] = playlists[NormalizedKey(r.listed[i])].name
              /\ Ascending(r.listed)

C13_Witness ==
    /\ events = <<Printed("Showing all playlists", "")>>
    /\ listed = << <<97>>, <<65, 65>> >>

(* C14: a playlist operation (create, add, remove, clear, delete, show)    *)
(* changes neither the playback state nor the current video, and play,     *)
(* stop, play_random, pause, resume, search, flag and allow change neither *)
(* the set of playlists nor any playlist's videos: a flagged member stays  *)
(* a member.                                                               *)
KeepsPlayback(o) == SamePlayback(o.w) /\ SameFlags(o.w)

KeepsPlaylists(o) == SamePlaylists(o.w)

C14_OneComponentPerOperation ==
    /\ EveryPlaylistOutcome(KeepsPlayback)
    /\ EveryPlaybackOutcome(KeepsPlaylists)

C14_Witness ==
    /\ events = <<Printed("Stopping video", "v1"), Called("stop", ""),
                  Printed("Successfully flagged video", "Not supplied")>>
    /\ \E k \in DOMAIN playlists : playlists[k].videos = <<"v2", "v1">>


\* The unflagged videos a title search and a tag search are to find.
TitleMatches(term) ==
    {id \in VideoIds :
        ~Truthy(flag[id]) /\ IsSubstring(Lower(term), Lower(Title(id)))}

TagMatches(tag) ==
    {id \in VideoIds : ~Truthy(flag[id]) /\ \E t \in Tags(id) : Lower(t) = Lower(tag)}

HasRead(w) == \E i \in 1..Len(w.events) : w.events[i] = ReadLine

\* A search that is to find nothing reports so, reads nothing and leaves the
\* playback alone; the line is read exactly when something is found.
SearchReadsOnlyWithResults(r, matches) ==
    /\ matches = {} =>
          /\ r.events = <<Printed("No search results", "")>>
          /\ SamePlayback(r) /\ SameFlags(r) /\ SamePlaylists(r)
    /\ HasRead(r) <=> matches # {}

(* C15: a search by title or by tag whose term matches no unflagged video  *)
(* reports "no results", reads no selection and leaves the playback        *)
(* unchanged; the selection is read only when the match list is non-empty. *)
C15_NoResultsNoPrompt ==
    \A term \in TermInputs, answer \in AnswerInputs :
        /\ SearchReadsOnlyWithResults(search_videos(World, term, answer),
                                      TitleMatches(term))
        /\ SearchReadsOnlyWithResults(search_videos_tag(World, term, answer),
                                      TagMatches(term))

C15_Witness ==
    /\ events = <<Printed("No search results", "")>>
    /\ state = PAUSED
    /\ \E id \in VideoIds : Truthy(flag[id])

\* The number a line selects: "1", "2" and "3" select; "", "n", "0" and the
\* superscript two select nothing (0).
SelectionOf(answer) ==
    IF answer = <<49>> THEN 1
    ELSE IF answer = <<50>> THEN 2
    ELSE IF answer = <<51>> THEN 3
    ELSE 0

\* A search with n >= 1 matches lists them by title, ascending, prompts and
\* reads; a selection k in 1..n then does what play of the k-th listed video
\* does, and any other line leaves the playback alone.
SearchPlaysSelection(r, matches, answer) ==
    LET n == Cardinality(matches)
        k == SelectionOf(answer)
        results == [i \in 1..n |-> r.events[i + 1][3]]
    IN  n >= 1 =>
          /\ Len(r.events) >= n + 3
          /\ r.events[1] = Printed("Here are the results", "")
          /\ \A i \in 1..n : r.events[i + 1] = Printed("result", results[i])
          /\ {results[i] : i \in 1..n} = matches
          /\ \A i, j \in 1..n :
                i < j => StrLess(Title(results[i]), Title(results[j]))
          /\ r.events[n + 3] = ReadLine
          /\ SameFlags(r) /\ SamePlaylists(r)
          /\ IF 1 <= k /\ k <= n
             THEN LET played == play_video(World, results[k])
                  IN  /\ r.state = PLAYING /\ r.video = results[k]
                      /\ r.state = played.state /\ r.video = played.video
                      /\ SubSeq(r.events, n + 4, Len(r.events)) = played.events
             ELSE SamePlayback(r)

(* C18: a search with n >= 1 matches (unflagged videos only, by title      *)
(* ascending, numbered 1..n) leaves the playback unchanged on a selection  *)
(* that is not a number or is outside 1..n, and on a selection k in 1..n   *)
(* does what play(id) of the k-th match does, ending PLAYING with it.      *)
C18_SelectionPlaysKthMatch ==
    \A term \in TermInputs, answer \in AnswerInputs :
        /\ SearchPlaysSelection(search_videos(World, term, answer),
                                TitleMatches(term), answer)
        /\ SearchPlaysSelection(search_videos_tag(World, term, answer),
                                TagMatches(term), answer)

C18_Witness ==
    /\ events = <<Printed("Here are the results", ""),
                  Printed("result", "v2"), Printed("result", "v1"),
                  Printed("Would you like to play any of the above?", ""),
                  ReadLine,
                  Printed("Stopping video", "v2"), Called("stop", ""),
                  Called("play", "v1"), Printed("Playing video", "v1")>>
    /\ state = PLAYING /\ video = "v1"


(* C16: play(id) of an existing, flagged video is rejected with Flagged    *)
(* and the video does not become current; a video that was PLAYING or      *)
(* PAUSED has been stopped by then, so the call ends STOPPED with no       *)
(* current video; with nothing current the playback is unchanged.          *)
C16_FlaggedPlayRejectedAfterStop ==
    \A id \in VideoIds :
        Truthy(flag[id]) =>
            LET r == play_video(World, id)
                rejected == Printed("Cannot play video: Video is currently flagged",
                                    flag[id])
            IN  /\ r.video # id
                /\ r.state = STOPPED /\ r.video = None
                /\ SameFlags(r) /\ SamePlaylists(r)
                /\ IF state # STOPPED
                   THEN r.events = <<Printed("Stopping video", video),
                                     Called("stop", ""), rejected>>
                   ELSE r.events = <<rejected>> /\ SamePlayback(r)

C16_Witness ==
    /\ events = <<Printed("Stopping video", "v2"), Called("stop", ""),
                  Printed("Cannot play video: Video is currently flagged",
                          "Not supplied")>>
    /\ state = STOPPED /\ video = None

\* The one report add_to_playlist and remove_from_playlist are to give: the
\* first precondition, in the listed order, that fails.
AddReport(name, id) ==
    IF Lower(name) \notin DOMAIN playlists
    THEN Printed("Cannot add video", "Playlist does not exist")
    ELSE IF id \notin VideoIds
    THEN Printed("Cannot add video", "Video does not exist")
    ELSE IF Truthy(flag[id])
    THEN Printed("Cannot add video: Video is currently flagged", flag[id])
    ELSE IF Contains(playlists[Lower(name)].videos, id)
    THEN Printed("Cannot add video", "Video already added")
    ELSE Printed("Added video", id)

RemoveReport(name, id) ==
    IF Lower(name) \notin DOMAIN playlists
    THEN Printed("Cannot remove video", "Playlist does not exist")
    ELSE IF id \notin VideoIds
    THEN Printed("Cannot remove video", "Video does not exist")
    ELSE IF ~Contains(playlists[Lower(name)].videos, id)
    THEN Printed("Cannot remove video", "Video is not in playlist")
    ELSE Printed("Removed video", id)

(* C17: add_to_playlist and remove_from_playlist give exactly one report:  *)
(* the first failing precondition in the order playlist missing, video     *)
(* missing, Flagged, AlreadyMember (add) and playlist missing, video       *)
(* missing, NotMember (remove); a call that fails changes nothing.         *)
C17_FirstFailingPrecondition ==
    \A name \in NameInputs, id \in IdInputs :
        /\ LET r == add_to_playlist(World, name, id)
           IN  /\ r.events = <<AddReport(name, id)>>
               /\ SamePlayback(r) /\ SameFlags(r)
               /\ AddReport(name, id) # Printed("Added video", id) => SamePlaylists(r)
        /\ LET r == remove_from_playlist(World, name, id)
           IN  /\ r.events = <<RemoveReport(name, id)>>
               /\ SamePlayback(r) /\ SameFlags(r)
               /\ RemoveReport(name, id) # Printed("Removed video", id)
                     => SamePlaylists(r)

C17_Witness ==
    /\ events = <<Printed("Cannot remove video", "Video does not exist")>>
    /\ \E k \in DOMAIN playlists : playlists[k].videos # <<>>

(* C19: play_random() reports NoVideosAvailable and changes nothing when   *)
(* every video is flagged; otherwise it reports neither NotFound nor       *)
(* Flagged and ends PLAYING with an unflagged video, after stopping the    *)
(* video that was current.                                                 *)
C19_PlayRandomPlaysUnflagged ==
    \A chosen \in get_random_video_id(World) :
        LET r == play_random_video(World, chosen)
        IN  IF \A id \in VideoIds : Truthy(flag[id])
            THEN /\ r.events = <<Printed("No videos available", "")>>
                 /\ SamePlayback(r) /\ SameFlags(r) /\ SamePlaylists(r)
            ELSE /\ r.state = PLAYING
                 /\ r.video \in VideoIds
                 /\ ~Truthy(flag[r.video])
                 /\ SameFlags(r) /\ SamePlaylists(r)
                 /\ LET started == <<Called("play", r.video),
                                     Printed("Playing video", r.video)>>
                    IN  r.events =
                          IF state # STOPPED
                          THEN <<Printed("Stopping video", video),
                                 Called("stop", "")>> \o started
                          ELSE started

C19_Witness ==
    /\ events = <<Printed("No videos available", "")>>
    /\ \A id \in VideoIds : Truthy(flag[id])
    /\ state = STOPPED

EveryOutcome(P(_)) == EveryPlaybackOutcome(P) /\ EveryPlaylistOutcome(P)

HasStopped(w) == \E i \in 1..Len(w.events) : w.events[i] = Called("stop", "")

\* The parts of C20 that hold as stated.
LegalPauseAndStop(o) ==
    /\ (o.w.state = PAUSED /\ state # PAUSED) =>
          o.op = "pause_video" /\ state = PLAYING
    /\ o.op \in {"pause_video", "continue_video"} => o.w.video = video
    /\ o.op = "pause_video" /\ state = PLAYING => o.w.state = PAUSED
    /\ o.op = "stop_video" =>
          IF state = STOPPED
          THEN /\ o.w.events = <<Printed("Cannot stop video", VideoPlaybackError)>>
               /\ SamePlayback(o.w) /\ SameFlags(o.w) /\ SamePlaylists(o.w)
          ELSE o.w.state = STOPPED /\ o.w.video = None

(* C20 as stated: the state becomes PAUSED only through pause() from       *)
(* PLAYING; a step from PAUSED to PLAYING with the same current video      *)
(* happens only through resume(); pause() and resume() keep the current    *)
(* video; stop() from PLAYING or PAUSED reaches STOPPED and from STOPPED    *)
(* reports NoVideoPlaying and changes nothing.                             *)
BackOnlyByResume(o) ==
    /\ LegalPauseAndStop(o)
    /\ (state = PAUSED /\ o.w.state = PLAYING /\ o.w.video = video) =>
          o.op = "continue_video"

C20_ResumeIsTheOnlyWayBack == EveryOutcome(BackOnlyByResume)

(* C20, amended: as stated, except that it is a step from PAUSED to        *)
(* PLAYING with the same current video and without a stop in between that  *)
(* happens only through resume(): play, play_random and a search selection *)
(* of the paused video stop it and start it again.                         *)
BackByResumeOrRestart(o) ==
    /\ LegalPauseAndStop(o)
    /\ (state = PAUSED /\ o.w.state = PLAYING /\ o.w.video = video) =>
          \/ o.op = "continue_video"
          \/ /\ o.op \in {"play_video", "play_random_video",
                         "search_videos", "search_videos_tag"}
             /\ HasStopped(o.w)

C20_OnlyLegalTransitions == EveryOutcome(BackByResumeOrRestart)

C20_Witness ==
    /\ events = <<Printed("Continuing video", "v1"), Called("play", "v1")>>
    /\ state = PLAYING /\ video = "v1"

====
